---- MODULE Spec2Model ----
(***************************************************************************)
(* A model of the graph node of src/src/lib.rs: the vertex store, the      *)
(* local API (get, put, on, map, off), the Gun-dialect message codec and   *)
(* the merge of incoming put and get frames.                               *)
(***************************************************************************)
EXTENDS Integers, Sequences, FiniteSets, TLC

(***************************************************************************)
(* Strings.  A Rust String is modelled by the non-empty sequence of its    *)
(* segments between "/" separators, so that join("/") and split("/") are   *)
(* computed as the code computes them.  "" is <<"">>, "a" is <<"a">>,       *)
(* "a/x" is <<"a", "x">>, "a/" is <<"a", "">>.                              *)
(***************************************************************************)
EmptyStr == <<"">>

Str(a) == <<a>>

\* Vec<String>::join("/")
RECURSIVE Join(_)
Join(path) ==
    IF path = <<>> THEN EmptyStr
    ELSE IF Len(path) = 1 THEN path[1]
    ELSE path[1] \o Join(Tail(path))

\* s.split("/").nth(n), as the sequence of the zero or one items the for loop visits
SplitNth(s, n) == IF Len(s) > n THEN << Str(s[n + 1]) >> ELSE <<>>

\* The segments the model's strings are built from, in byte order
AtomOrder == <<"", "#", ".", ">", "Bit", "Children", "Link", "Null", "Number", "Text",
               "_", "a", "b", "get", "msgid", "old", "older", "put", "x", "y">>

\* The place of every segment in AtomOrder
AtomRank ==
    [a \in { AtomOrder[i] : i \in 1..Len(AtomOrder) } |->
        CHOOSE i \in 1..Len(AtomOrder) : AtomOrder[i] = a]

\* The pairs <<p, a>> of different segments where p is a prefix of a
AtomPrefixes == { <<"", AtomOrder[i]>> : i \in 2..Len(AtomOrder) } \cup { <<"old", "older">> }

\* Whether a string whose first segment is p and which goes on with "/" is
\* below a string whose first segment is a, p being a prefix of a: the byte
\* of a after p decides against "/", and of the model's segments only the
\* first bytes of "#" and "." are below it
SlashFirst(p, a) == ~(p = "" /\ a \in {"#", "."})

\* String order (the order of BTreeMap<String, _>), byte by byte
RECURSIVE StrLess(_, _)
StrLess(s, t) ==
    IF s = <<>> THEN t # <<>>
    ELSE IF t = <<>> THEN FALSE
    ELSE IF s[1] = t[1] THEN StrLess(Tail(s), Tail(t))
    ELSE IF <<s[1], t[1]>> \in AtomPrefixes THEN Len(s) = 1 \/ SlashFirst(s[1], t[1])
    ELSE IF <<t[1], s[1]>> \in AtomPrefixes THEN ~(Len(t) = 1 \/ SlashFirst(t[1], s[1]))
    ELSE AtomRank[s[1]] < AtomRank[t[1]]

\* The keys of a BTreeMap in iteration order
RECURSIVE SortedKeys(_)
SortedKeys(S) ==
    IF S = {} THEN <<>>
    ELSE LET m == CHOOSE k \in S : \A o \in S \ {k} : StrLess(k, o)
         IN  <<m>> \o SortedKeys(S \ {m})

(***************************************************************************)
(* HashMap<usize, Callback>.  The map keeps its keys in buckets and its    *)
(* iterator visits the buckets in order.  Which free bucket an inserted    *)
(* key takes depends on its hash under the map's random seed: it can be    *)
(* any free bucket.  A map is created without buckets; an insert into a    *)
(* full map (0, 3, 7, 14 keys) moves every key to a new array of 4, 8, 16, *)
(* 32 buckets, each to a bucket its hash chooses; a removal frees the      *)
(* bucket and moves nothing.  A caller sees the order of the keys, never   *)
(* the buckets, so a table is the set of the bucket layouts that give the  *)
(* order seen so far: an insert draws the order the keys have afterwards.  *)
(* (Maps of up to 14 keys; beyond, removals leave tombstones.)             *)
(***************************************************************************)
\* The content of a free bucket
Vacant == -1

\* The keys of a bucket layout in the order the iterator visits them
Keys(layout) == SelectSeq(layout, LAMBDA k : k # Vacant)

\* The keys a map of n buckets holds before it grows
Capacity(n) == IF n < 8 THEN (IF n = 0 THEN 0 ELSE n - 1) ELSE (n \div 8) * 7

\* The buckets of the array a full map of n buckets moves to
Grown(n) == IF n = 0 THEN 4 ELSE 2 * n

\* The layouts after a key takes a free bucket of a layout
Taken(layout, id) ==
    { [layout EXCEPT ![b] = id] : b \in { c \in 1..Len(layout) : layout[c] = Vacant } }

\* Subscriptions::default: HashMap::new, no bucket
EmptyTable == { <<>> }

\* The keys of a table in the order .values() visits their callbacks
Order(table) == Keys(CHOOSE layout \in table : TRUE)

Ids(table) == { Order(table)[i] : i \in 1..Len(Order(table)) }

\* The layouts of n buckets whose keys come out in an order
RECURSIVE Spread(_, _)
Spread(order, n) ==
    IF n < Len(order) THEN {}
    ELSE IF n = 0 THEN { <<>> }
    ELSE { Append(l, Vacant) : l \in Spread(order, n - 1) } \cup
         (IF order = <<>> THEN {}
          ELSE { Append(l, order[Len(order)]) :
                   l \in Spread(SubSeq(order, 1, Len(order) - 1), n - 1) })

\* The orders a set of keys can come out in
RECURSIVE Arrangements(_)
Arrangements(keys) ==
    IF keys = {} THEN { <<>> }
    ELSE UNION { { <<k>> \o order : order \in Arrangements(keys \ {k}) } : k \in keys }

\* Whether HashMap::insert of one more key moves the keys to a new array:
\* the layouts of a table have the same keys in as many buckets
Full(table) ==
    LET layout == CHOOSE l \in table : TRUE
    IN  Len(Keys(layout)) = Capacity(Len(layout))

\* The orders the keys of a table can have after HashMap::insert of a new key
Orders(table, id) ==
    IF Full(table) THEN Arrangements(Ids(table) \cup {id})
    ELSE UNION { { Keys(l) : l \in Taken(layout, id) } : layout \in table }

\* HashMap::insert of a key not in the table, the keys coming out in order
Insert(table, id, order) ==
    IF Full(table)
    THEN IF Len(order) = Len(Order(table)) + 1 /\
            { order[i] : i \in 1..Len(order) } = Ids(table) \cup {id}
         THEN Spread(order, Grown(Len(CHOOSE l \in table : TRUE)))
         ELSE {}
    ELSE UNION { { l \in Taken(layout, id) : Keys(l) = order } : layout \in table }

\* HashMap::remove
Remove(table, id) ==
    { [b \in 1..Len(layout) |-> IF layout[b] = id THEN Vacant ELSE layout[b]] : layout \in table }

EmptyMap == [k \in {} |-> 0]

(***************************************************************************)
(* GunValue and Option<GunValue>                                           *)
(***************************************************************************)
None == [tag |-> "None"]

Null == [tag |-> "Null"]

Bit(b) == [tag |-> "Bit", bit |-> b]

\* The spacing of the f32 values around a non-negative integer: 1 below
\* 2^24, then doubling with every further bit
RECURSIVE Ulp(_, _)
Ulp(n, u) == IF n \div u < 16777216 THEN u ELSE Ulp(n, 2 * u)

\* The f32 nearest to an integer, ties to the even significand (the cast of
\* a JSON number to f32)
F32(n) ==
    LET m == IF n < 0 THEN 0 - n ELSE n
        u == Ulp(m, 1)
        q == m \div u
        r == m % u
        up == IF 2 * r > u THEN 1 ELSE IF 2 * r = u THEN q % 2 ELSE 0
        f == (q + up) * u
    IN  IF n < 0 THEN 0 - f ELSE f

\* GunValue::Number(f32); the numbers of the model are integers
Number(n) == [tag |-> "Number", number |-> n]

Text(s) == [tag |-> "Text", text |-> s]

Link(id) == [tag |-> "Link", link |-> id]

Children(m) == [tag |-> "Children", map |-> m]

IsSome(v) == v # None

(***************************************************************************)
(* serde_json::Value.  An object is the sequence of its (key, value)       *)
(* entries in key order, which is the order Map::iter visits them.         *)
(***************************************************************************)
JNull == [j |-> "null"]

JStr(s) == [j |-> "string", s |-> s]

\* A number written without fraction and exponent (as_u64 is Some)
JNum(n) == [j |-> "number", n |-> n, float |-> FALSE]

\* A number serde_json holds as f64, which json!(f64) and json!(f32) build;
\* the floats of the model have integer values
JFloat(n) == [j |-> "number", n |-> n, float |-> TRUE]

JBool(b) == [j |-> "bool", b |-> b]

JArr(a) == [j |-> "array", a |-> a]

JObj(o) == [j |-> "object", o |-> o]

KV(k, v) == [k |-> k, v |-> v]

\* serde_json::Map::insert: the value replaces the one the key has, or the
\* entry goes to its place in key order
RECURSIVE JInsert(_, _)
JInsert(o, e) ==
    IF o = <<>> THEN <<e>>
    ELSE IF o[1].k = e.k THEN <<e>> \o Tail(o)
    ELSE IF StrLess(e.k, o[1].k) THEN <<e>> \o o
    ELSE <<o[1]>> \o JInsert(Tail(o), e)

\* The object json!({k1: v1, k2: v2, ..}) builds: the entries inserted in the
\* order written
RECURSIVE JMapFrom(_, _)
JMapFrom(o, entries) ==
    IF entries = <<>> THEN o
    ELSE JMapFrom(JInsert(o, entries[1]), Tail(entries))

JMap(entries) == JObj(JMapFrom(<<>>, entries))

\* Value::get(key): Option<&Value>, None rendered as the empty sequence
JGet(json, key) ==
    IF json.j = "object" /\ \E i \in 1..Len(json.o) : json.o[i].k = key
    THEN << json.o[CHOOSE i \in 1..Len(json.o) : json.o[i].k = key].v >>
    ELSE <<>>

\* Value's Index<&str>: Null when the key is absent or the value is no object
JIndex(json, key) == IF JGet(json, key) = <<>> THEN JNull ELSE JGet(json, key)[1]

\* The derived Serialize of GunValue (externally tagged: a unit variant is
\* its name, the others {"Variant": payload}; a BTreeMap in key order)
RECURSIVE ToJson(_)
ToJson(v) ==
    CASE v.tag = "Null" -> JStr(Str("Null"))
      [] v.tag = "Bit" -> JObj(<< KV(Str("Bit"), JBool(v.bit)) >>)
      [] v.tag = "Number" -> JObj(<< KV(Str("Number"), JFloat(v.number)) >>)
      [] v.tag = "Text" -> JObj(<< KV(Str("Text"), JStr(v.text)) >>)
      [] v.tag = "Link" -> JObj(<< KV(Str("Link"), JNum(v.link)) >>)
      [] v.tag = "Children" ->
             LET keys == SortedKeys(DOMAIN v.map)
             IN  JObj(<< KV(Str("Children"),
                            JObj([i \in 1..Len(keys) |->
                                     KV(keys[i], ToJson(v.map[keys[i]]))])) >>)

\* serde_json::from_value::<GunValue>: Ok(value) as <<value>>, Err as <<>>.
\* A string names a unit variant; an object with one entry is a variant and
\* its payload (null for the unit variant); everything else is an error.
RECURSIVE FromJson(_)
FromJson(json) ==
    IF json.j = "string" THEN (IF json.s = Str("Null") THEN << Null >> ELSE <<>>)
    ELSE IF json.j = "object" /\ Len(json.o) = 1
    THEN LET e == json.o[1]
         IN  CASE e.k = Str("Null") -> IF e.v.j = "null" THEN << Null >> ELSE <<>>
               [] e.k = Str("Bit") -> IF e.v.j = "bool" THEN << Bit(e.v.b) >> ELSE <<>>
               [] e.k = Str("Number") ->
                      IF e.v.j = "number" THEN << Number(F32(e.v.n)) >> ELSE <<>>
               [] e.k = Str("Text") -> IF e.v.j = "string" THEN << Text(e.v.s) >> ELSE <<>>
               [] e.k = Str("Link") ->
                      IF e.v.j = "number" /\ ~e.v.float /\ e.v.n >= 0
                      THEN << Link(e.v.n) >> ELSE <<>>
               [] e.k = Str("Children") ->
                      IF e.v.j # "object" THEN <<>>
                      ELSE LET o == e.v.o
                               decoded == [i \in 1..Len(o) |-> FromJson(o[i].v)]
                           IN  IF \E i \in 1..Len(o) : decoded[i] = <<>> THEN <<>>
                               ELSE << Children([k \in { o[i].k : i \in 1..Len(o) } |->
                                          decoded[CHOOSE i \in 1..Len(o) : o[i].k = k][1]]) >>
               [] OTHER -> <<>>
    ELSE <<>>

(***************************************************************************)
(* The state of one Node instance (one peer), as a record the operations   *)
(* below transform:                                                        *)
(*   vtx      the Node records, by id: the fields every clone of a Node    *)
(*            shares through its Arcs (updated_at, value, children,        *)
(*            parents, on_subscriptions, map_subscriptions) and the        *)
(*            fields a clone copies (key, path)                            *)
(*   store    the ids that are keys of the SharedNodeStore                 *)
(*   counter  COUNTER, the next value get_id returns                       *)
(*   calls    the callback invocations of the operation in progress        *)
(*   sent     the frames the operation in progress gave to send_str        *)
(*   writes   the writes put_local applied in the operation in progress    *)
(*   panic    whether the operation in progress panicked                   *)
(*   ret      the value the last function returned                         *)
(*   locks    the lock guards the thread running the operation holds       *)
(*   held     for each callback invocation of the operation in progress,   *)
(*            the guards the invoking thread held at the call              *)
(***************************************************************************)
RootId == 0

CounterStart == 1

NewVertex(key, path, parents) ==
    [key |-> key, path |-> path, updated_at |-> 0, value |-> None,
     children |-> EmptyMap, parents |-> parents,
     on_subscriptions |-> EmptyTable, map_subscriptions |-> EmptyTable]

\* Node::new: the root is built but never inserted into its own store;
\* one adapter, "ws_server", is registered
NodeNew ==
    [vtx |-> (RootId :> NewVertex(EmptyStr, <<>>, {})),
     store |-> {},
     counter |-> CounterStart,
     calls |-> <<>>, sent |-> <<>>, writes |-> <<>>, panic |-> FALSE, ret |-> RootId,
     locks |-> {}, held |-> <<>>]

\* The number of registered network adapters (Node::new registers one and
\* nothing adds or removes any)
AdapterCount == 1

\* What an operation starts from: the logs of the previous operation cleared
Begin(s) == [s EXCEPT !.calls = <<>>, !.sent = <<>>, !.writes = <<>>, !.panic = FALSE,
                       !.locks = {}, !.held = <<>>]

Call(sub, value, key) == [sub |-> sub, value |-> value, key |-> key]

\* A guard of the RwLock of a field of vertex id, or of the node store (id -1)
ReadGuard(field, id) == [lock |-> field, of |-> id, mode |-> "read"]

StoreGuard == ReadGuard("store", -1)

\* A guard comes to life / is dropped
Acquire(s, guard) == [s EXCEPT !.locks = @ \cup {guard}]

Release(s, guard) == [s EXCEPT !.locks = @ \ {guard}]

\* callback(value, key), invoked while the guards s.locks are alive
Invoke(s, sub, value, key) ==
    [s EXCEPT !.calls = Append(@, Call(sub, value, key)), !.held = Append(@, s.locks)]

\* Node::new_child
new_child(s, self, key) ==
    IF key = EmptyStr THEN [s EXCEPT !.panic = TRUE]
    ELSE LET me   == s.vtx[self]
             path == IF me.key # EmptyStr THEN Append(me.path, me.key) ELSE me.path
             id   == s.counter
             node == NewVertex(key, path, {<<self, key>>})
         IN  [s EXCEPT !.counter = id + 1,
                       !.vtx = (id :> node) @@
                               [s.vtx EXCEPT ![self].children = (key :> id) @@ @],
                       !.store = @ \cup {id},
                       !.ret = id]

\* Node::get_child_id
get_child_id(s, self, key) ==
    IF IsSome(s.vtx[self].value) THEN new_child(s, self, key)
    ELSE IF key \in DOMAIN s.vtx[self].children
         THEN [s EXCEPT !.ret = s.vtx[self].children[key]]
         ELSE new_child(s, self, key)

\* Node::get: the handle returned is the stored vertex viewed under key, which
\* is the key the vertex was created with
get(s, self, key) == get_child_id(s, self, key)

\* Node::_children_to_gun_value
children_to_gun_value(s, children) ==
    Children([k \in DOMAIN children |->
                LET c == children[k]
                IN  IF c \in s.store /\ IsSome(s.vtx[c].value)
                    THEN s.vtx[c].value
                    ELSE Link(c)])

\* A get_gun_value that looks at the children before the scalar
get_gun_value_children_first(s, self) ==
    IF DOMAIN s.vtx[self].children # {}
    THEN children_to_gun_value(s, s.vtx[self].children)
    ELSE s.vtx[self].value

\* Node::get_gun_value
get_gun_value(s, self) ==
    IF IsSome(s.vtx[self].value) THEN s.vtx[self].value
    ELSE IF DOMAIN s.vtx[self].children # {}
         THEN children_to_gun_value(s, s.vtx[self].children)
         ELSE None

\* Node::_call_if_value_exists
call_if_value_exists(s, self, sub, key) ==
    IF IsSome(get_gun_value(s, self))
    THEN Invoke(s, sub, get_gun_value(s, self), key)
    ELSE s

\* callback(value, key) for every callback of a subscription table
RECURSIVE CallEach(_, _, _, _)
CallEach(s, subs, value, key) ==
    IF subs = <<>> THEN s
    ELSE CallEach(Invoke(s, subs[1], value, key), Tail(subs), value, key)

\* parent_clone._call_if_value_exists(callback, key) for every on-subscriber
\* of the parent
RECURSIVE CallEachIfValue(_, _, _, _)
CallEachIfValue(s, parent, subs, key) ==
    IF subs = <<>> THEN s
    ELSE CallEachIfValue(call_if_value_exists(s, parent, subs[1], key),
                         parent, Tail(subs), key)

\* The body of put_local's loop over self.parents, for one (parent_id, key).
\* The guard of self.store.read() lives to the end of the if let body; each
\* subscription table is read-locked for the loop over it.
put_local_parent(s, parent_id, key, value) ==
    IF parent_id \in s.store
    THEN LET map_guard == ReadGuard("map_subscriptions", parent_id)
             on_guard  == ReadGuard("on_subscriptions", parent_id)
             s0 == Acquire(s, StoreGuard)
             s1 == Release(CallEach(Acquire(s0, map_guard),
                                    Order(s.vtx[parent_id].map_subscriptions), value, key),
                           map_guard)
             s2 == Release(CallEachIfValue(Acquire(s1, on_guard), parent_id,
                                           Order(s.vtx[parent_id].on_subscriptions), key),
                           on_guard)
         IN  Release([s2 EXCEPT !.vtx[parent_id].value = None], StoreGuard)
    ELSE s

\* put_local's loop over self.parents (a set new_child builds with one pair
\* and nothing changes afterwards)
RECURSIVE put_local_parents(_, _, _)
put_local_parents(s, parents, value) ==
    IF parents = {} THEN s
    ELSE LET p == CHOOSE q \in parents : TRUE
         IN  put_local_parents(put_local_parent(s, p[1], p[2], value),
                               parents \ {p}, value)

\* Node::put_local
put_local(s, self, value, time) ==
    LET s1 == [s EXCEPT !.vtx[self].updated_at = time,
                        !.vtx[self].value = value,
                        !.vtx[self].children = EmptyMap,
                        !.writes = Append(@, [id |-> self, value |-> value, time |-> time])]
        on_guard == ReadGuard("on_subscriptions", self)
        parents_guard == ReadGuard("parents", self)
        s2 == Release(CallEach(Acquire(s1, on_guard),
                               Order(s1.vtx[self].on_subscriptions), value,
                               s1.vtx[self].key),
                      on_guard)
    IN  Release(put_local_parents(Acquire(s2, parents_guard), s2.vtx[self].parents, value),
                parents_guard)

(***************************************************************************)
(* Message codec                                                           *)
(***************************************************************************)
\* utils::random_string(8): the message id, an opaque token no handler reads
MsgId == JStr(Str("msgid"))

\* Node::ws_send: one send_str per registered adapter
ws_send(s, msg) ==
    [s EXCEPT !.sent = @ \o [i \in 1..AdapterCount |-> msg]]

\* Node::create_get_msg
create_get_msg(s, self) ==
    LET me == s.vtx[self]
    IN  IF Len(me.path) > 0
        THEN JMap(<< KV(Str("get"), JMap(<< KV(Str("#"), JStr(Join(me.path))),
                                            KV(Str("."), JStr(me.key)) >>)),
                     KV(Str("#"), MsgId) >>)
        ELSE JMap(<< KV(Str("get"), JMap(<< KV(Str("#"), JStr(me.key)) >>)),
                     KV(Str("#"), MsgId) >>)

\* One entry of a put object: {"_": {"#": soul, ">": {key: state}}, key: value}
PutEntry(soul, key, state, value) ==
    JMap(<< KV(Str("_"), JMap(<< KV(Str("#"), JStr(soul)),
                                 KV(Str(">"), JMap(<< KV(key, state) >>)) >>)),
            KV(key, value) >>)

\* Node::create_put_msg.  The loop over path.iter().enumerate().nth(1) runs
\* once, for the second path component, when the path has two or more;
\* puts[path] = path_obj inserts its entry under the first component.
create_put_msg(s, self, value, updated_at) ==
    LET me        == s.vtx[self]
        full_path == Join(me.path)
        json      == << KV(full_path, PutEntry(full_path, me.key, JFloat(updated_at),
                                               ToJson(value))) >>
        path      == Join(SubSeq(me.path, 1, 1))
        path_obj  == PutEntry(path, me.path[2], JFloat(updated_at),
                              JMap(<< KV(Str("#"), JStr(Join(SubSeq(me.path, 1, 2)))) >>))
        puts      == IF Len(me.path) >= 2 THEN JInsert(json, KV(path, path_obj)) ELSE json
    IN  JMap(<< KV(Str("put"), JObj(puts)), KV(Str("#"), MsgId) >>)

(***************************************************************************)
(* Local API                                                               *)
(***************************************************************************)
\* An off that forgets the map_subscriptions table
off_on_subscriptions_only(s, self, subscription_id) ==
    [s EXCEPT !.vtx[self].on_subscriptions = Remove(@, subscription_id)]

\* Node::off
off(s, self, subscription_id) ==
    [s EXCEPT !.vtx[self].on_subscriptions = Remove(@, subscription_id),
              !.vtx[self].map_subscriptions = Remove(@, subscription_id)]

\* Node::on; the callback is named by the subscription id it is stored under,
\* and order is the order the table's ids have once the id is in
on(s, self, order) ==
    LET subscription_id == s.counter
        s1 == call_if_value_exists(s, self, subscription_id, s.vtx[self].key)
        s2 == [s1 EXCEPT !.counter = subscription_id + 1,
                         !.vtx[self].on_subscriptions = Insert(@, subscription_id, order),
                         !.ret = subscription_id]
    IN  IF AdapterCount > 0 THEN ws_send(s2, create_get_msg(s2, self)) ELSE s2

\* The loop of Node::map over self.children
RECURSIVE map_children(_, _, _, _)
map_children(s, self, keys, sub) ==
    IF keys = <<>> THEN s
    ELSE LET child_id == s.vtx[self].children[keys[1]]
             s1 == IF child_id \in s.store
                   THEN Release(call_if_value_exists(Acquire(s, StoreGuard), child_id, sub,
                                                     keys[1]),
                                StoreGuard)
                   ELSE s
         IN  map_children(s1, self, Tail(keys), sub)

\* Node::map; order is the order the table's ids have once the id is in
map(s, self, order) ==
    LET subscription_id == s.counter
        children_guard == ReadGuard("children", self)
        s1 == Release(map_children(Acquire(s, children_guard), self,
                                   SortedKeys(DOMAIN s.vtx[self].children), subscription_id),
                      children_guard)
    IN  [s1 EXCEPT !.counter = subscription_id + 1,
                   !.vtx[self].map_subscriptions = Insert(@, subscription_id, order),
                   !.ret = subscription_id]

\* Node::put, with the wall clock reading as a parameter
put(s, self, value, time) ==
    LET s1 == put_local(s, self, value, time)
    IN  IF AdapterCount > 0 THEN ws_send(s1, create_put_msg(s1, self, value, time)) ELSE s1

(***************************************************************************)
(* Merge engine                                                            *)
(***************************************************************************)
\* The loop of incoming_put over the entries of update_data["_"][">"]
RECURSIVE incoming_put_fields(_, _, _, _)
incoming_put_fields(s, node, update_data, updated_at_times) ==
    IF updated_at_times = <<>> \/ s.panic THEN s
    ELSE LET child_key == updated_at_times[1].k
             incoming  == updated_at_times[1].v
         IN  IF incoming.j # "number" THEN [s EXCEPT !.panic = TRUE]
             ELSE LET s1 == get(s, node, child_key)
                      child == s1.ret
                      new_value == IF JGet(update_data, child_key) = <<>> THEN <<>>
                                   ELSE FromJson(JGet(update_data, child_key)[1])
                      s2 == IF s1.panic THEN s1
                            ELSE IF s1.vtx[child].updated_at < incoming.n /\ new_value # <<>>
                                 THEN put_local(s1, child, new_value[1], incoming.n)
                                 ELSE s1
                  IN  incoming_put_fields(s2, node, update_data, Tail(updated_at_times))

\* node = node.get(name) for each name of a for loop over an Option
RECURSIVE get_each(_, _, _)
get_each(s, node, names) ==
    IF names = <<>> \/ s.panic THEN [s EXCEPT !.ret = node]
    ELSE LET s1 == get(s, node, names[1])
         IN  get_each(s1, s1.ret, Tail(names))

\* The body of incoming_put's loop, for one (updated_key, update_data)
incoming_put_entry(s, self, updated_key, update_data) ==
    LET s1 == get(s, self, updated_key)
        s2 == IF s1.panic THEN s1 ELSE get_each(s1, s1.ret, SplitNth(updated_key, 1))
        updated_at_times == JIndex(JIndex(update_data, Str("_")), Str(">"))
    IN  IF s2.panic \/ updated_at_times.j # "object" THEN s2
        ELSE incoming_put_fields(s2, s2.ret, update_data, updated_at_times.o)

\* Node::incoming_put
RECURSIVE incoming_put(_, _, _)
incoming_put(s, self, put_entries) ==
    IF put_entries = <<>> \/ s.panic THEN s
    ELSE incoming_put(incoming_put_entry(s, self, put_entries[1].k, put_entries[1].v),
                      self, Tail(put_entries))

\* Node::send_get_response_if_have
send_get_response_if_have(s, self) ==
    IF IsSome(get_gun_value(s, self))
    THEN LET me == s.vtx[self]
             full_path == Join(me.path)
         IN  ws_send(s, JMap(<< KV(Str("put"),
                                   JMap(<< KV(full_path,
                                              PutEntry(full_path, me.key, JFloat(me.updated_at),
                                                       ToJson(get_gun_value(s, self)))) >>)),
                                KV(Str("#"), MsgId) >>))
    ELSE s

\* Node::incoming_get
incoming_get(s, self, get_obj) ==
    LET path == JGet(get_obj, Str("#"))
        key  == JGet(get_obj, Str("."))
    IN  IF path = <<>> \/ path[1].j # "string" THEN s
        ELSE IF key # <<>>
        THEN IF key[1].j # "string" THEN s
             ELSE LET s1 == get(s, self, SplitNth(path[1].s, 0)[1])
                      s2 == IF s1.panic THEN s1
                            ELSE get_each(s1, s1.ret, SplitNth(path[1].s, 1))
                      s3 == IF s2.panic THEN s2 ELSE get(s2, s2.ret, key[1].s)
                  IN  IF s3.panic THEN s3 ELSE send_get_response_if_have(s3, s3.ret)
        ELSE LET s1 == get(s, self, path[1].s)
             IN  IF s1.panic THEN s1 ELSE send_get_response_if_have(s1, s1.ret)

\* An incoming_message that relays a put frame to the adapters after merging it
incoming_object_relaying(s, self, msg) ==
    IF msg.j # "object" THEN s
    ELSE LET put_v == JGet(msg, Str("put"))
             get_v == JGet(msg, Str("get"))
             s1 == IF put_v # <<>> /\ put_v[1].j = "object"
                   THEN ws_send(incoming_put(s, self, put_v[1].o), msg)
                   ELSE s
         IN  IF ~s1.panic /\ get_v # <<>> /\ get_v[1].j = "object"
             THEN incoming_get(s1, self, get_v[1])
             ELSE s1

\* Node::incoming_message for a message that is no array
incoming_object(s, self, msg) ==
    IF msg.j # "object" THEN s
    ELSE LET put_v == JGet(msg, Str("put"))
             get_v == JGet(msg, Str("get"))
             s1 == IF put_v # <<>> /\ put_v[1].j = "object"
                   THEN incoming_put(s, self, put_v[1].o)
                   ELSE s
         IN  IF ~s1.panic /\ get_v # <<>> /\ get_v[1].j = "object"
             THEN incoming_get(s1, self, get_v[1])
             ELSE s1

\* The loop of incoming_message over the elements of an array
RECURSIVE incoming_array(_, _, _)
incoming_array(s, self, array) ==
    IF array = <<>> \/ s.panic THEN s
    ELSE incoming_array(IF array[1].j = "array" THEN s
                        ELSE incoming_object(s, self, array[1]),
                        self, Tail(array))

\* Node::incoming_message(msg, false)
incoming_message(s, self, msg) ==
    IF msg.j = "array" THEN incoming_array(s, self, msg.a)
    ELSE incoming_object(s, self, msg)

\* The node after its adapter delivers msg
Handle(s, msg) == incoming_message(Begin(s), RootId, msg)

(***************************************************************************)
(* Bounds and inputs                                                       *)
(***************************************************************************)
\* At most MaxVertices vertices besides the root and MaxSubs subscription ids
\* are allocated: an operation that would allocate more is not taken
MaxVertices == 2

MaxSubs == 1

\* Timestamps are 0..MaxTime; a wall-clock reading is 1..MaxTime
MaxTime == 2

Values == {Text(Str("old")), Text(Str("older"))}

\* The keys local callers pass to get: "a" on the root, "x" below it, which are
\* the node and the field the frames address
LocalKeys(h) == IF h = RootId THEN {Str("a")} ELSE {Str("x")}

PutFrame(entries) == JObj(<< KV(Str("#"), MsgId), KV(Str("put"), JObj(entries)) >>)

GetFrame(fields) == JObj(<< KV(Str("#"), MsgId), KV(Str("get"), JObj(fields)) >>)

\* A put frame with one entry and one field
PutFrame1(soul, key, time, value) ==
    PutFrame(<< KV(soul, PutEntry(soul, key, JNum(time), ToJson(value))) >>)

\* The put frames an adapter delivers: the field "x" of the node "a", every
\* timestamp, every value
PutFrames ==
    { PutFrame1(Str("a"), Str("x"), time, value) : time \in 0..MaxTime, value \in Values }

GetFrames ==
    { GetFrame(<< KV(Str("#"), JStr(Str("a"))) >>),
      GetFrame(<< KV(Str("#"), JStr(Str("a"))), KV(Str("."), JStr(Str("x"))) >>) }

\* The frames an adapter delivers
InFrames == PutFrames \cup GetFrames

(***************************************************************************)
(* The state machine of one peer                                           *)
(***************************************************************************)
VARIABLES
    vtx,       \* the Node records by id (root included)
    store,     \* the ids in the SharedNodeStore
    counter,   \* COUNTER
    handles,   \* the ids of the Node handles the local caller holds
    calls,     \* the callback invocations of the last operation
    sent,      \* the frames the last operation sent to the adapter
    writes,    \* the writes put_local applied in the last operation
    panic,     \* whether the last operation panicked
    lastPut,   \* the last local put, while no other write has followed it
    peers,     \* two peers: the node of each (the two-peer specification)
    wire,      \* two peers: the frames in flight to each peer
    usedTimes, \* two peers: the wall-clock readings each peer's puts have taken
    pc,        \* concurrent delivery: where each delivering thread is
    job,       \* concurrent delivery: the timestamp and value of each thread's frame
    local,     \* concurrent delivery: each thread's local variables node and child
    cancelled  \* cancellation: the (subscription id, vertex) pairs off has removed

nodeVars == <<vtx, store, counter, handles, calls, sent, writes, panic, lastPut, cancelled>>

peerVars == <<peers, wire, usedTimes>>

threadVars == <<pc, job, local>>

vars == <<nodeVars, peerVars, threadVars>>

PeerIds == {"A", "B"}

Threads == {"T1", "T2"}

\* The node as the operations take it
Cur == Begin([vtx |-> vtx, store |-> store, counter |-> counter,
              calls |-> <<>>, sent |-> <<>>, writes |-> <<>>, panic |-> FALSE,
              ret |-> RootId, locks |-> {}, held |-> <<>>])

NoPut == [id |-> -1, value |-> None]

\* The node after an operation
Becomes(r) ==
    /\ Cardinality(DOMAIN r.vtx) <= 1 + MaxVertices
    /\ r.counter - CounterStart - (Cardinality(DOMAIN r.vtx) - 1) <= MaxSubs
    /\ vtx' = r.vtx
    /\ store' = r.store
    /\ counter' = r.counter
    /\ calls' = r.calls
    /\ sent' = r.sent
    /\ writes' = r.writes
    /\ panic' = r.panic
    /\ UNCHANGED <<peerVars, threadVars, cancelled>>

\* The state after Node::new
NodeInit ==
    /\ vtx = NodeNew.vtx
    /\ store = NodeNew.store
    /\ counter = NodeNew.counter
    /\ handles = {RootId}
    /\ calls = <<>>
    /\ sent = <<>>
    /\ writes = <<>>
    /\ panic = FALSE
    /\ lastPut = NoPut
    /\ cancelled = {}

\* Two peers after Node::new, nothing in flight
PeerInit ==
    /\ peers = [p \in PeerIds |-> NodeNew]
    /\ wire = [p \in PeerIds |-> {}]
    /\ usedTimes = [p \in PeerIds |-> {}]

\* The local variables of a thread about to run incoming_put: the Node get is
\* called on, which of the two gets is running, the id get_child_id found or
\* new_child drew, the handles node and child, the place of the callback in
\* the loop over a subscription table, the place of the child and the map in
\* _children_to_gun_value, the value _call_if_value_exists got, and whether
\* the thread is queued for a write lock
ThreadLocals == [self |-> RootId, stage |-> "node", id |-> RootId,
                 node |-> RootId, child |-> RootId,
                 i |-> 0, j |-> 0, agg |-> EmptyMap, arg |-> None, waits |-> FALSE]

\* No delivering thread has started
ThreadIdle ==
    /\ pc = [th \in Threads |-> "idle"]
    /\ job = [th \in Threads |-> [time |-> 0, value |-> None]]
    /\ local = [th \in Threads |-> ThreadLocals]

Init == NodeInit /\ PeerInit /\ ThreadIdle

\* h.get(key)
Get(h, key) ==
    LET r == get(Cur, h, key)
    IN  /\ Becomes(r)
        /\ handles' = IF r.panic THEN handles ELSE handles \cup {r.ret}
        /\ UNCHANGED lastPut

\* h.put(value) at wall-clock time
Put(h, value, time) ==
    /\ Becomes(put(Cur, h, value, time))
    /\ lastPut' = [id |-> h, value |-> value]
    /\ UNCHANGED handles

\* h.on(callback)
On(h, order) ==
    /\ Becomes(on(Cur, h, order))
    /\ UNCHANGED <<handles, lastPut>>

\* h.map(callback)
Map(h, order) ==
    /\ Becomes(map(Cur, h, order))
    /\ UNCHANGED <<handles, lastPut>>

\* h.off(subscription_id)
Off(h, subscription_id) ==
    /\ Becomes(off(Cur, h, subscription_id))
    /\ UNCHANGED <<handles, lastPut>>

\* The adapter's on_message callback: node_clone.incoming_message(msg, false)
Incoming(msg) ==
    LET r == incoming_message(Cur, RootId, msg)
    IN  /\ Becomes(r)
        /\ lastPut' = IF r.writes = <<>> THEN lastPut ELSE NoPut
        /\ UNCHANGED handles

Next ==
    \/ \E h \in handles : \E key \in LocalKeys(h) : Get(h, key)
    \/ \E h \in handles, value \in Values, time \in 1..MaxTime : Put(h, value, time)
    \/ \E h \in handles : \E order \in Orders(vtx[h].on_subscriptions, counter) : On(h, order)
    \/ \E h \in handles : \E order \in Orders(vtx[h].map_subscriptions, counter) : Map(h, order)
    \/ \E h \in handles, id \in CounterStart..counter : Off(h, id)
    \/ \E msg \in InFrames : Incoming(msg)

Spec == Init /\ [][Next]_vars

(***************************************************************************)
(* Two peers whose adapters forward every frame one sends to the other.    *)
(* Each peer writes the same vertex path, root.get("a").get("x").  The     *)
(* wall-clock readings are pairwise distinct and each peer's clock runs    *)
(* forward; the clocks of the two peers are not synchronized.              *)
(***************************************************************************)
\* Wall-clock readings of the two peers are 1..MaxPeerTime
MaxPeerTime == 3

Other(p) == CHOOSE q \in PeerIds : q # p

\* At peer p: root.get("a").get("x").put(value), the wall clock reading time
PeerPut(p, value, time) ==
    /\ \A q \in PeerIds : time \notin usedTimes[q]
    /\ \A u \in usedTimes[p] : u < time
    /\ LET s1 == get(Begin(peers[p]), RootId, Str("a"))
           s2 == get(s1, s1.ret, Str("x"))
           s3 == put(s2, s2.ret, value, time)
       IN  /\ peers' = [peers EXCEPT ![p] = s3]
           /\ wire' = [wire EXCEPT ![Other(p)] = @ \cup { s3.sent[i] : i \in 1..Len(s3.sent) }]
    /\ usedTimes' = [usedTimes EXCEPT ![p] = @ \cup {time}]
    /\ UNCHANGED <<nodeVars, threadVars>>

\* Peer p's adapter delivers a frame in flight: incoming_message(msg, false);
\* what the handling sends goes to the other peer
PeerDeliver(p, msg) ==
    /\ msg \in wire[p]
    /\ LET r == Handle(peers[p], msg)
       IN  /\ peers' = [peers EXCEPT ![p] = r]
           /\ wire' = [wire EXCEPT ![p] = @ \ {msg},
                                   ![Other(p)] = @ \cup { r.sent[i] : i \in 1..Len(r.sent) }]
    /\ UNCHANGED <<usedTimes, nodeVars, threadVars>>

PeerNext ==
    \/ \E p \in PeerIds, value \in Values, time \in 1..MaxPeerTime : PeerPut(p, value, time)
    \/ \E p \in PeerIds : \E msg \in wire[p] : PeerDeliver(p, msg)

SpecPeers == Init /\ [][PeerNext]_vars

(***************************************************************************)
(* Concurrent delivery: two threads, each handling an incoming put of the  *)
(* field "x" of the node "a".  A step is one lock acquisition of the       *)
(* code, the fetch_add on COUNTER, or one call of a callback: the guard is *)
(* taken, the locked field is read or written, and the guard is dropped,   *)
(* except for the guards the code keeps over the following statements      *)
(* (the read guards of self.parents and of the store in put_local's parent *)
(* fan-out, the guard of a subscription table over the loop on it, the     *)
(* guards of value and children inside get_gun_value).  A write lock waits *)
(* while another thread holds a read guard of the same lock, and a read    *)
(* lock waits while another thread waits to write.                         *)
(***************************************************************************)
\* The subscriptions a graph has when the two threads start
MaxThreadSubs == 2

\* The graphs after n calls of on, or of map, on a vertex of the graphs of a set
RECURSIVE Subscribed(_, _, _, _)
Subscribed(graphs, id, method, n) ==
    IF n = 0 THEN graphs
    ELSE Subscribed(UNION { IF method = "on"
                            THEN { on(Begin(s), id, order) :
                                     order \in Orders(s.vtx[id].on_subscriptions, s.counter) }
                            ELSE { map(Begin(s), id, order) :
                                     order \in Orders(s.vtx[id].map_subscriptions, s.counter) } :
                            s \in graphs },
                    id, method, n - 1)

\* The graphs the threads start from: the one of Node::new; the one after
\* root.get("a").get("x"), with up to MaxThreadSubs subscriptions, by on on
\* a/x, by map on a and by on on a; the one after root.get("a").put(value)
\* on top of these gets, where a holds a value and lists no child, with up
\* to MaxThreadSubs subscriptions by on on a
ThreadGraphs ==
    LET s1       == get(Begin(NodeNew), RootId, Str("a"))
        prepared == get(s1, s1.ret, Str("x"))
        a        == s1.ret
        x        == prepared.ret
        written  == put(Begin(prepared), a, Text(Str("old")), 1)
    IN  {NodeNew} \cup
        UNION { Subscribed(Subscribed(Subscribed({prepared}, x, "on", n[1]),
                                      a, "map", n[2]),
                           a, "on", n[3]) :
                n \in { m \in (0..MaxThreadSubs) \X (0..MaxThreadSubs) \X (0..MaxThreadSubs) :
                          m[1] + m[2] + m[3] <= MaxThreadSubs } } \cup
        UNION { Subscribed({written}, a, "on", n) : n \in 0..MaxThreadSubs }

\* A graph and two threads about to handle a frame each; the frames carry
\* different timestamps
ThreadInit ==
    /\ \E g \in ThreadGraphs : vtx = g.vtx /\ store = g.store /\ counter = g.counter
    /\ handles = {RootId}
    /\ calls = <<>>
    /\ sent = <<>>
    /\ writes = <<>>
    /\ panic = FALSE
    /\ lastPut = NoPut
    /\ cancelled = {}
    /\ PeerInit
    /\ pc = [th \in Threads |-> "read_value"]
    /\ job \in [Threads -> [time : 1..MaxTime, value : Values]]
    /\ \A t1 \in Threads : \A t2 \in Threads : t1 # t2 => job[t1].time # job[t2].time
    /\ local = [th \in Threads |-> ThreadLocals]

\* The shared node after a thread's step
Shared(r) ==
    /\ vtx' = r.vtx
    /\ store' = r.store
    /\ counter' = r.counter
    /\ calls' = r.calls
    /\ writes' = r.writes
    /\ UNCHANGED <<handles, sent, panic, lastPut, cancelled, peerVars, job>>

\* The node as a thread's step takes it: the logs of the earlier steps kept
CurShared == [vtx |-> vtx, store |-> store, counter |-> counter,
              calls |-> calls, sent |-> sent, writes |-> writes, panic |-> panic,
              ret |-> RootId, locks |-> {}, held |-> <<>>]

\* The key of the get a thread is running: self.get(updated_key) on the root,
\* then node.get(child_key)
ThreadKey(th) == IF local[th].stage = "node" THEN Str("a") ELSE Str("x")

\* The (parent_id, key) put_local's loop over self.parents visits: the one
\* pair new_child built the set with
ThreadParent(th) == CHOOSE p \in vtx[local[th].child].parents : TRUE

\* The read guards a thread holds between two steps, by the statement it is
\* at: the guard of self.on_subscriptions over put_local's first loop; the
\* guards of self.parents and, inside the if let body, of the store; the
\* guards of the parent's tables over the loops on them; the guards of the
\* parent's value and children inside get_gun_value
ThreadHolds(th) ==
    LET child   == local[th].child
        parent  == ThreadParent(th)[1]
        in_loop == {ReadGuard("parents", child)}
        in_body == in_loop \cup {StoreGuard}
        in_on   == in_body \cup {ReadGuard("on_subscriptions", parent)}
    IN  IF pc[th] = "own_call" THEN {ReadGuard("on_subscriptions", child)}
        ELSE IF pc[th] = "store_get" THEN in_loop
        ELSE IF pc[th] \in {"notify_map", "notify_on", "clear_parent"} THEN in_body
        ELSE IF pc[th] = "map_call" THEN in_body \cup {ReadGuard("map_subscriptions", parent)}
        ELSE IF pc[th] \in {"on_value", "on_call"} THEN in_on
        ELSE IF pc[th] = "on_children" THEN in_on \cup {ReadGuard("value", parent)}
        ELSE IF pc[th] \in {"on_child_store", "on_child_value"}
        THEN in_on \cup {ReadGuard("value", parent), ReadGuard("children", parent)}
        ELSE {}

\* The lock the write a thread is at takes, named by its read guard
WriteLock(th) ==
    IF pc[th] = "store_insert" THEN StoreGuard
    ELSE IF pc[th] = "children_insert" THEN ReadGuard("children", local[th].self)
    ELSE IF pc[th] = "set_updated_at" THEN ReadGuard("updated_at", local[th].child)
    ELSE IF pc[th] = "set_value" THEN ReadGuard("value", local[th].child)
    ELSE IF pc[th] = "set_children" THEN ReadGuard("children", local[th].child)
    ELSE ReadGuard("value", ThreadParent(th)[1])

WriteSteps == {"store_insert", "children_insert", "set_updated_at", "set_value",
               "set_children", "clear_parent"}

\* RwLock::write: the lock is free of the read guards of the other threads;
\* the thread stops waiting
Writes(th) ==
    /\ \A o \in Threads \ {th} : WriteLock(th) \notin ThreadHolds(o)
    /\ local' = [local EXCEPT ![th].waits = FALSE]

\* RwLock::read: no other thread waits to write the lock
Reads(th, guard) ==
    \A o \in Threads \ {th} : ~(local[o].waits /\ pc[o] \in WriteSteps /\ WriteLock(o) = guard)

\* RwLock::write finds a read guard of another thread and queues the writer
ThreadWait(th) ==
    /\ pc[th] \in WriteSteps
    /\ ~local[th].waits
    /\ \E o \in Threads \ {th} : WriteLock(th) \in ThreadHolds(o)
    /\ local' = [local EXCEPT ![th].waits = TRUE]
    /\ UNCHANGED <<nodeVars, peerVars, job, pc>>

\* get_child_id: if self.value.read().unwrap().is_some()
ThreadReadValue(th) ==
    /\ pc[th] = "read_value"
    /\ Reads(th, ReadGuard("value", local[th].self))
    /\ pc' = [pc EXCEPT ![th] = IF IsSome(vtx[local[th].self].value)
                                 THEN "get_id" ELSE "lookup"]
    /\ UNCHANGED <<nodeVars, peerVars, job, local>>

\* get_child_id: match self.children.read().unwrap().get(&key)
ThreadLookup(th) ==
    /\ pc[th] = "lookup"
    /\ Reads(th, ReadGuard("children", local[th].self))
    /\ LET children == vtx[local[th].self].children
       IN  IF ThreadKey(th) \in DOMAIN children
           THEN /\ local' = [local EXCEPT ![th].id = children[ThreadKey(th)]]
                /\ pc' = [pc EXCEPT ![th] = "store_read"]
           ELSE /\ pc' = [pc EXCEPT ![th] = "get_id"]
                /\ UNCHANGED local
    /\ UNCHANGED <<nodeVars, peerVars, job>>

\* new_child: let id = get_id()
ThreadGetId(th) ==
    /\ pc[th] = "get_id"
    /\ Shared([CurShared EXCEPT !.counter = @ + 1])
    /\ local' = [local EXCEPT ![th].id = counter]
    /\ pc' = [pc EXCEPT ![th] = "store_insert"]

\* new_child: self.store.write().unwrap().insert(id, node)
ThreadStoreInsert(th) ==
    /\ pc[th] = "store_insert"
    /\ Writes(th)
    /\ LET me   == vtx[local[th].self]
           path == IF me.key # EmptyStr THEN Append(me.path, me.key) ELSE me.path
           node == NewVertex(ThreadKey(th), path, {<<local[th].self, ThreadKey(th)>>})
       IN  Shared([CurShared EXCEPT !.vtx = (local[th].id :> node) @@ @,
                                    !.store = @ \cup {local[th].id}])
    /\ pc' = [pc EXCEPT ![th] = "children_insert"]

\* new_child: self.children.write().unwrap().insert(key, id)
ThreadChildrenInsert(th) ==
    /\ pc[th] = "children_insert"
    /\ Writes(th)
    /\ Shared([CurShared EXCEPT
                  !.vtx[local[th].self].children = (ThreadKey(th) :> local[th].id) @@ @])
    /\ pc' = [pc EXCEPT ![th] = "store_read"]

\* get: self.store.read().unwrap().get(&id).unwrap().clone(); the id is in
\* the store, new_child inserting it there before a children map names it.
\* The handle is node after the first get and child after the second.
ThreadStoreRead(th) ==
    /\ pc[th] = "store_read"
    /\ Reads(th, StoreGuard)
    /\ local[th].id \in store
    /\ IF local[th].stage = "node"
       THEN /\ local' = [local EXCEPT ![th].node = local[th].id,
                                      ![th].self = local[th].id,
                                      ![th].stage = "child"]
            /\ pc' = [pc EXCEPT ![th] = "read_value"]
       ELSE /\ local' = [local EXCEPT ![th].child = local[th].id]
            /\ pc' = [pc EXCEPT ![th] = "check"]
    /\ UNCHANGED <<nodeVars, peerVars, job>>

\* incoming_put: if *child.updated_at.read().unwrap() < incoming_val_updated_at
ThreadCheck(th) ==
    /\ pc[th] = "check"
    /\ Reads(th, ReadGuard("updated_at", local[th].child))
    /\ pc' = [pc EXCEPT ![th] = IF vtx[local[th].child].updated_at < job[th].time
                                 THEN "set_updated_at" ELSE "done"]
    /\ UNCHANGED <<nodeVars, peerVars, job, local>>

\* put_local: *self.updated_at.write().unwrap() = time
ThreadSetUpdatedAt(th) ==
    /\ pc[th] = "set_updated_at"
    /\ Writes(th)
    /\ Shared([CurShared EXCEPT !.vtx[local[th].child].updated_at = job[th].time])
    /\ pc' = [pc EXCEPT ![th] = "set_value"]

\* put_local: *self.value.write().unwrap() = Some(value.clone())
ThreadSetValue(th) ==
    /\ pc[th] = "set_value"
    /\ Writes(th)
    /\ Shared([CurShared EXCEPT !.vtx[local[th].child].value = job[th].value])
    /\ pc' = [pc EXCEPT ![th] = "set_children"]

\* put_local: *self.children.write().unwrap() = BTreeMap::new()
ThreadSetChildren(th) ==
    /\ pc[th] = "set_children"
    /\ Writes(th)
    /\ Shared([CurShared EXCEPT
                  !.vtx[local[th].child].children = EmptyMap,
                  !.writes = Append(@, [id |-> local[th].child, value |-> job[th].value,
                                        time |-> job[th].time])])
    /\ pc' = [pc EXCEPT ![th] = "notify_own"]

\* A thread calls a callback, the guards it holds alive
ThreadInvoke(th, sub, value, key) ==
    Shared(Invoke([CurShared EXCEPT !.locks = ThreadHolds(th)], sub, value, key))

\* put_local: self.on_subscriptions.read().unwrap().values(); the guard lives
\* to the end of the loop
ThreadNotifyOwn(th) ==
    /\ pc[th] = "notify_own"
    /\ Reads(th, ReadGuard("on_subscriptions", local[th].child))
    /\ IF Order(vtx[local[th].child].on_subscriptions) = <<>>
       THEN /\ pc' = [pc EXCEPT ![th] = "parents_read"]
            /\ UNCHANGED local
       ELSE /\ pc' = [pc EXCEPT ![th] = "own_call"]
            /\ local' = [local EXCEPT ![th].i = 1]
    /\ UNCHANGED <<nodeVars, peerVars, job>>

\* put_local: callback(value.clone(), self.key.clone()), for one callback of
\* self.on_subscriptions
ThreadOwnCall(th) ==
    /\ pc[th] = "own_call"
    /\ LET child == local[th].child
           subs  == Order(vtx[child].on_subscriptions)
       IN  /\ ThreadInvoke(th, subs[local[th].i], job[th].value, vtx[child].key)
           /\ IF local[th].i = Len(subs)
              THEN /\ pc' = [pc EXCEPT ![th] = "parents_read"]
                   /\ UNCHANGED local
              ELSE /\ local' = [local EXCEPT ![th].i = @ + 1]
                   /\ UNCHANGED pc

\* put_local: for (parent_id, key) in self.parents.read().unwrap().iter(); the
\* guard lives to the end of the loop
ThreadParentsRead(th) ==
    /\ pc[th] = "parents_read"
    /\ Reads(th, ReadGuard("parents", local[th].child))
    /\ pc' = [pc EXCEPT ![th] = IF vtx[local[th].child].parents = {}
                                 THEN "done" ELSE "store_get"]
    /\ UNCHANGED <<nodeVars, peerVars, job, local>>

\* put_local: if let Some(parent) = self.store.read().unwrap().get(parent_id);
\* the guard lives to the end of the if let body
ThreadStoreGet(th) ==
    /\ pc[th] = "store_get"
    /\ Reads(th, StoreGuard)
    /\ pc' = [pc EXCEPT ![th] = IF ThreadParent(th)[1] \in store
                                 THEN "notify_map" ELSE "done"]
    /\ UNCHANGED <<nodeVars, peerVars, job, local>>

\* put_local: parent.clone().map_subscriptions.read().unwrap().values(); the
\* guard lives to the end of the loop
ThreadNotifyMap(th) ==
    /\ pc[th] = "notify_map"
    /\ Reads(th, ReadGuard("map_subscriptions", ThreadParent(th)[1]))
    /\ IF Order(vtx[ThreadParent(th)[1]].map_subscriptions) = <<>>
       THEN /\ pc' = [pc EXCEPT ![th] = "notify_on"]
            /\ UNCHANGED local
       ELSE /\ pc' = [pc EXCEPT ![th] = "map_call"]
            /\ local' = [local EXCEPT ![th].i = 1]
    /\ UNCHANGED <<nodeVars, peerVars, job>>

\* put_local: callback(value.clone(), key.clone()), for one callback of the
\* parent's map_subscriptions
ThreadMapCall(th) ==
    /\ pc[th] = "map_call"
    /\ LET parent == ThreadParent(th)
           subs   == Order(vtx[parent[1]].map_subscriptions)
       IN  /\ ThreadInvoke(th, subs[local[th].i], job[th].value, parent[2])
           /\ IF local[th].i = Len(subs)
              THEN /\ pc' = [pc EXCEPT ![th] = "notify_on"]
                   /\ UNCHANGED local
              ELSE /\ local' = [local EXCEPT ![th].i = @ + 1]
                   /\ UNCHANGED pc

\* put_local: parent.on_subscriptions.read().unwrap().values(); the guard
\* lives to the end of the loop
ThreadNotifyOn(th) ==
    /\ pc[th] = "notify_on"
    /\ Reads(th, ReadGuard("on_subscriptions", ThreadParent(th)[1]))
    /\ IF Order(vtx[ThreadParent(th)[1]].on_subscriptions) = <<>>
       THEN /\ pc' = [pc EXCEPT ![th] = "clear_parent"]
            /\ UNCHANGED local
       ELSE /\ pc' = [pc EXCEPT ![th] = "on_value"]
            /\ local' = [local EXCEPT ![th].i = 1]
    /\ UNCHANGED <<nodeVars, peerVars, job>>

\* The statement after _call_if_value_exists for the callback a thread is at:
\* the next callback of the parent's on_subscriptions, or the end of the loop
ThreadNextOn(th) ==
    IF local[th].i = Len(Order(vtx[ThreadParent(th)[1]].on_subscriptions))
    THEN [pc |-> "clear_parent", i |-> local[th].i]
    ELSE [pc |-> "on_value", i |-> local[th].i + 1]

\* get_gun_value: let value = self.value.read().unwrap(), on the parent; a
\* Some is cloned and the guard dropped, over a None the guard lives on
ThreadOnValue(th) ==
    /\ pc[th] = "on_value"
    /\ Reads(th, ReadGuard("value", ThreadParent(th)[1]))
    /\ LET value == vtx[ThreadParent(th)[1]].value
       IN  IF IsSome(value)
           THEN /\ pc' = [pc EXCEPT ![th] = "on_call"]
                /\ local' = [local EXCEPT ![th].arg = value]
           ELSE /\ pc' = [pc EXCEPT ![th] = "on_children"]
                /\ UNCHANGED local
    /\ UNCHANGED <<nodeVars, peerVars, job>>

\* get_gun_value: let children = self.children.read().unwrap(), on the
\* parent; without children there is no value and no call
ThreadOnChildren(th) ==
    /\ pc[th] = "on_children"
    /\ Reads(th, ReadGuard("children", ThreadParent(th)[1]))
    /\ IF DOMAIN vtx[ThreadParent(th)[1]].children = {}
       THEN /\ pc' = [pc EXCEPT ![th] = ThreadNextOn(th).pc]
            /\ local' = [local EXCEPT ![th].i = ThreadNextOn(th).i]
       ELSE /\ pc' = [pc EXCEPT ![th] = "on_child_store"]
            /\ local' = [local EXCEPT ![th].j = 1, ![th].agg = EmptyMap]
    /\ UNCHANGED <<nodeVars, peerVars, job>>

\* _children_to_gun_value has an entry for one more child: the next child, or
\* Some(GunValue::Children(map)) for the callback
ThreadAggregated(th, key, value) ==
    LET agg  == (key :> value) @@ local[th].agg
        keys == SortedKeys(DOMAIN vtx[ThreadParent(th)[1]].children)
    IN  IF local[th].j = Len(keys)
        THEN /\ pc' = [pc EXCEPT ![th] = "on_call"]
             /\ local' = [local EXCEPT ![th].arg = Children(agg)]
        ELSE /\ pc' = [pc EXCEPT ![th] = "on_child_store"]
             /\ local' = [local EXCEPT ![th].j = @ + 1, ![th].agg = agg]

\* _children_to_gun_value: match self.store.read().unwrap().get(&child_id),
\* for one child of the parent; the guard lives to the end of the match
ThreadOnChildStore(th) ==
    /\ pc[th] = "on_child_store"
    /\ Reads(th, StoreGuard)
    /\ LET children == vtx[ThreadParent(th)[1]].children
           key      == SortedKeys(DOMAIN children)[local[th].j]
       IN  IF children[key] \in store
           THEN /\ pc' = [pc EXCEPT ![th] = "on_child_value"]
                /\ UNCHANGED local
           ELSE ThreadAggregated(th, key, Link(children[key]))
    /\ UNCHANGED <<nodeVars, peerVars, job>>

\* _children_to_gun_value: match &*(child.value.read().unwrap())
ThreadOnChildValue(th) ==
    /\ pc[th] = "on_child_value"
    /\ LET children == vtx[ThreadParent(th)[1]].children
           key      == SortedKeys(DOMAIN children)[local[th].j]
           c        == children[key]
       IN  /\ Reads(th, ReadGuard("value", c))
           /\ ThreadAggregated(th, key, IF IsSome(vtx[c].value) THEN vtx[c].value ELSE Link(c))
    /\ UNCHANGED <<nodeVars, peerVars, job>>

\* _call_if_value_exists: callback(value, key.clone()), for one callback of
\* the parent's on_subscriptions
ThreadOnCall(th) ==
    /\ pc[th] = "on_call"
    /\ LET parent == ThreadParent(th)
           subs   == Order(vtx[parent[1]].on_subscriptions)
       IN  ThreadInvoke(th, subs[local[th].i], local[th].arg, parent[2])
    /\ pc' = [pc EXCEPT ![th] = ThreadNextOn(th).pc]
    /\ local' = [local EXCEPT ![th].i = ThreadNextOn(th).i]

\* put_local: *parent.value.write().unwrap() = None; the guards of the store
\* and of self.parents are dropped after it
ThreadClearParent(th) ==
    /\ pc[th] = "clear_parent"
    /\ Writes(th)
    /\ Shared([CurShared EXCEPT !.vtx[ThreadParent(th)[1]].value = None])
    /\ pc' = [pc EXCEPT ![th] = "done"]

ThreadNext ==
    \/ \E th \in Threads : ThreadWait(th)
    \/ \E th \in Threads : ThreadReadValue(th)
    \/ \E th \in Threads : ThreadLookup(th)
    \/ \E th \in Threads : ThreadGetId(th)
    \/ \E th \in Threads : ThreadStoreInsert(th)
    \/ \E th \in Threads : ThreadChildrenInsert(th)
    \/ \E th \in Threads : ThreadStoreRead(th)
    \/ \E th \in Threads : ThreadCheck(th)
    \/ \E th \in Threads : ThreadSetUpdatedAt(th)
    \/ \E th \in Threads : ThreadSetValue(th)
    \/ \E th \in Threads : ThreadSetChildren(th)
    \/ \E th \in Threads : ThreadNotifyOwn(th)
    \/ \E th \in Threads : ThreadOwnCall(th)
    \/ \E th \in Threads : ThreadParentsRead(th)
    \/ \E th \in Threads : ThreadStoreGet(th)
    \/ \E th \in Threads : ThreadNotifyMap(th)
    \/ \E th \in Threads : ThreadMapCall(th)
    \/ \E th \in Threads : ThreadNotifyOn(th)
    \/ \E th \in Threads : ThreadOnValue(th)
    \/ \E th \in Threads : ThreadOnChildren(th)
    \/ \E th \in Threads : ThreadOnChildStore(th)
    \/ \E th \in Threads : ThreadOnChildValue(th)
    \/ \E th \in Threads : ThreadOnCall(th)
    \/ \E th \in Threads : ThreadClearParent(th)

SpecThreads == ThreadInit /\ [][ThreadNext]_vars

(***************************************************************************)
(* Subscriptions and their cancellation: one peer whose caller registers   *)
(* up to MaxOffSubs callbacks with on and map, cancels them with off and   *)
(* writes by put, while the adapter delivers put frames.  Every write      *)
(* carries the same value and every local put reads the same wall-clock    *)
(* time.                                                                   *)
(***************************************************************************)
\* At most MaxOffVertices vertices besides the root and MaxOffSubs
\* subscription ids are allocated
MaxOffVertices == 2

MaxOffSubs == 2

\* The node after an operation, within the bounds of this specification
OffBecomes(r) ==
    /\ Cardinality(DOMAIN r.vtx) <= 1 + MaxOffVertices
    /\ r.counter - CounterStart - (Cardinality(DOMAIN r.vtx) - 1) <= MaxOffSubs
    /\ vtx' = r.vtx
    /\ store' = r.store
    /\ counter' = r.counter
    /\ calls' = r.calls
    /\ sent' = r.sent
    /\ writes' = r.writes
    /\ panic' = r.panic
    /\ UNCHANGED <<lastPut, peerVars, threadVars>>

\* h.get(key)
OffGet(h, key) ==
    LET r == get(Cur, h, key)
    IN  /\ OffBecomes(r)
        /\ handles' = IF r.panic THEN handles ELSE handles \cup {r.ret}
        /\ UNCHANGED cancelled

\* h.put(value), the wall clock reading 1
OffPut(h, value) ==
    /\ OffBecomes(put(Cur, h, value, 1))
    /\ UNCHANGED <<handles, cancelled>>

\* h.on(callback)
OffOn(h, order) ==
    /\ OffBecomes(on(Cur, h, order))
    /\ UNCHANGED <<handles, cancelled>>

\* h.map(callback)
OffMap(h, order) ==
    /\ OffBecomes(map(Cur, h, order))
    /\ UNCHANGED <<handles, cancelled>>

\* h.off(subscription_id); a callback registered under the id on the vertex
\* is from now on cancelled
OffOff(h, subscription_id) ==
    /\ OffBecomes(off(Cur, h, subscription_id))
    /\ cancelled' = IF subscription_id \in Ids(vtx[h].on_subscriptions) \cup
                                          Ids(vtx[h].map_subscriptions)
                    THEN cancelled \cup {[id |-> subscription_id, vertex |-> h]}
                    ELSE cancelled
    /\ UNCHANGED handles

\* The put frames the adapter delivers: the field "x" of the node "a", one
\* value, every wall-clock time
OffFrames == { PutFrame1(Str("a"), Str("x"), time, Text(Str("old"))) : time \in 1..MaxTime }

\* The adapter delivers a put frame
OffIncoming(msg) ==
    /\ OffBecomes(incoming_message(Cur, RootId, msg))
    /\ UNCHANGED <<handles, cancelled>>

OffNext ==
    \/ \E h \in handles : \E key \in LocalKeys(h) : OffGet(h, key)
    \/ \E h \in handles : OffPut(h, Text(Str("old")))
    \/ \E h \in handles : \E order \in Orders(vtx[h].on_subscriptions, counter) : OffOn(h, order)
    \/ \E h \in handles : \E order \in Orders(vtx[h].map_subscriptions, counter) : OffMap(h, order)
    \/ \E h \in handles, id \in CounterStart..counter : OffOff(h, id)
    \/ \E msg \in OffFrames : OffIncoming(msg)

SpecOff == Init /\ [][OffNext]_vars

(***************************************************************************)
(* Observations the properties are stated with                             *)
(***************************************************************************)
\* The ids on the chains of parents from vertex id up to the root; a parent's
\* id is always lower than its child's, new_child drawing the child's id after
\* the parent exists
RECURSIVE Ancestors(_, _)
Ancestors(v, id) ==
    LET ps == { p[1] : p \in v[id].parents }
    IN  ps \cup UNION { Ancestors(v, p) : p \in ps }

\* The vertices a traversal from vertex id reaches through the children maps,
\* each as <<path of keys from id, value, updated_at>>
RECURSIVE PathView(_, _, _)
PathView(v, id, prefix) ==
    { <<prefix, v[id].value, v[id].updated_at>> } \cup
    UNION { PathView(v, v[id].children[k], Append(prefix, k)) : k \in DOMAIN v[id].children }

\* The fields the merge properties try: a field of the node "a" or of the
\* node "a/x", with every timestamp and value
ProbeFields ==
    [soul : {Str("a"), <<"a", "x">>}, key : {Str("x"), Str("y")},
     time : 0..MaxTime, value : Values]

FrameOf(f) == PutFrame1(f.soul, f.key, f.time, f.value)

\* The frames of the probed fields
ProbeFrames == { FrameOf(f) : f \in ProbeFields }

\* The keys from the root to the vertex a put entry's field addresses, as
\* incoming_put walks them
FieldPath(f) == <<f.soul>> \o SplitNth(f.soul, 1) \o <<f.key>>

\* <<value, updated_at>> of the vertex at a path of keys from the root
AtPath(v, path) ==
    LET e == CHOOSE e \in PathView(v, RootId, <<>>) : e[1] = path
    IN  <<e[2], e[3]>>

\* <<value, updated_at>> at a path of keys from the root, <<None, 0>> when no
\* vertex is there
ValueAt(v, path) ==
    IF \E e \in PathView(v, RootId, <<>>) : e[1] = path THEN AtPath(v, path) ELSE <<None, 0>>

(***************************************************************************)
(* Properties                                                              *)
(***************************************************************************)
\* C1: merge is order-independent: from any reachable state, two put frames
\* that do not carry equal timestamps for the same field of the same path
\* leave every vertex path with the same value and updated_at in either
\* order of handling; and when both carry the same field, the one with the
\* lower timestamp changes nothing at that field when it is handled second.
C1_MergeOrderIndependent ==
    \A f1 \in ProbeFields : \A f2 \in ProbeFields :
        ~(f1.soul = f2.soul /\ f1.key = f2.key /\ f1.time = f2.time) =>
            LET r1  == Handle(Cur, FrameOf(f1))
                r12 == Handle(r1, FrameOf(f2))
                r21 == Handle(Handle(Cur, FrameOf(f2)), FrameOf(f1))
            IN  /\ PathView(r12.vtx, RootId, <<>>) = PathView(r21.vtx, RootId, <<>>)
                /\ (f1.soul = f2.soul /\ f1.key = f2.key /\ f1.time > f2.time) =>
                       AtPath(r12.vtx, FieldPath(f1)) = AtPath(r1.vtx, FieldPath(f1))

\* C2: two peers that each put to the same vertex path, with pairwise
\* distinct timestamps, and handle every put frame the other emitted, hold
\* the same value and the same updated_at at that path once no frame is in
\* flight.
C2_PeersConverge ==
    (\A p \in PeerIds : wire[p] = {}) =>
        ValueAt(peers["A"].vtx, <<Str("a"), Str("x")>>) =
        ValueAt(peers["B"].vtx, <<Str("a"), Str("x")>>)

\* C3: when two threads each handle an incoming put for the same vertex, the
\* check of the timestamp and the writes of put_local interleaving freely,
\* the vertex ends with the value and updated_at of the frame with the
\* higher timestamp.
C3_ConcurrentHigherWins ==
    (\A th \in Threads : pc[th] = "done") =>
        LET win == CHOOSE th \in Threads : \A o \in Threads : job[o].time <= job[th].time
        IN  ValueAt(vtx, <<Str("a"), Str("x")>>) = <<job[win].value, job[win].time>>

\* C4: for every vertex, updated_at never decreases: each write put_local
\* applies, from a local put or from the merge of an incoming put, carries a
\* time not lower than the updated_at the vertex had before the operation.
C4_UpdatedAtNeverDecreases ==
    [][\A i \in 1..Len(writes') :
          writes'[i].id \in DOMAIN vtx => writes'[i].time >= vtx[writes'[i].id].updated_at]_vars

\* C5: merge is idempotent: from any reachable state, handling a put frame
\* a second time right after the first leaves the vertices, their children,
\* values and updated_at and the store as the first handling left them,
\* applies no write and invokes no callback.
C5_MergeIdempotent ==
    \A f \in ProbeFields :
        LET r1 == Handle(Cur, FrameOf(f))
            r2 == Handle(r1, FrameOf(f))
        IN  /\ r2.vtx = r1.vtx
            /\ r2.store = r1.store
            /\ r2.writes = <<>>
            /\ r2.calls = <<>>

\* C6: in every reachable state, every vertex whose value is Some has an
\* empty children map.
C6_SomeValueHasNoChildren ==
    \A id \in DOMAIN vtx : IsSome(vtx[id].value) => vtx[id].children = EmptyMap

\* C7: in every reachable state the children maps and the parents sets agree
\* in both directions: p.children[k] = c implies (p, k) in c.parents, and
\* (p, k) in c.parents implies p.children[k] = c.
C7_ChildrenAndParentsAgree ==
    \A c \in DOMAIN vtx :
        /\ \A p \in DOMAIN vtx : \A k \in DOMAIN vtx[p].children :
              vtx[p].children[k] = c => <<p, k>> \in vtx[c].parents
        /\ \A e \in vtx[c].parents :
              /\ e[1] \in DOMAIN vtx
              /\ e[2] \in DOMAIN vtx[e[1]].children
              /\ vtx[e[1]].children[e[2]] = c

\* C8: in every reachable state the node store has an entry for every id
\* that is a value of a children map or a parent id of a parents set, the
\* root id 0 included.
C8_StoreHoldsEveryReferencedId ==
    \A id \in DOMAIN vtx :
        /\ \A k \in DOMAIN vtx[id].children : vtx[id].children[k] \in store
        /\ \A e \in vtx[id].parents : e[1] \in store

\* C9: after an accepted write of a scalar to a vertex L, every vertex on
\* the chains of parents from L up to the root has value None.
C9_AncestorsOfWrittenLeafAreInterior ==
    writes # <<>> =>
        \A anc \in Ancestors(vtx, writes[Len(writes)].id) : vtx[anc].value = None

\* C10: after put(n, V) and before any other write, on(n, cb) invokes cb
\* exactly once, within the call, with V and n's key.  (A step of on draws
\* one id; no other step needs looking at.)
C10_WriteThenObserve ==
    [][\A h \in handles :
          (/\ lastPut.id = h
           /\ counter' = counter + 1
           /\ \E order \in Orders(vtx[h].on_subscriptions, counter) : On(h, order)) =>
              calls' = << Call(counter, lastPut.value, vtx[h].key) >>]_vars

\* C10's case: on has just registered a subscription on the vertex of the
\* last put and its callback was invoked once with the value put
C10_Witness ==
    /\ lastPut.id \in store
    /\ (counter - 1) \in Ids(vtx[lastPut.id].on_subscriptions)
    /\ writes = <<>>
    /\ sent # <<>>
    /\ calls = << Call(counter - 1, lastPut.value, vtx[lastPut.id].key) >>

\* The keys from the root to a vertex: its path and its key
FullPath(v, id) == Append(v[id].path, v[id].key)

\* The vertices the round trip tries: every stored vertex, and the child "y"
\* a get on it returns, which lies one level deeper
RoundTripTargets ==
    { [s |-> Cur, id |-> h] : h \in store } \cup
    { [s |-> get(Cur, h, Str("y")), id |-> get(Cur, h, Str("y")).ret] : h \in store }

\* The values the round trip tries: one of every variant of GunValue
RoundTripValues ==
    Values \cup {Null, Bit(TRUE), Number(7), Link(1),
                 Children((Str("x") :> Text(Str("old"))) @@ (Str("y") :> Null))}

\* The peer with an empty graph after it handles the frame a local put emits
RoundTrip(s, id, value, time) == Handle(NodeNew, put(s, id, value, time).sent[1])

\* C11: put-frame round trip: for a vertex at any depth below the root, the
\* frame a local put(V) at time t emits, handled by a peer with an empty
\* graph, completes, leaves the peer's vertex at the same path and key with
\* value V and updated_at t, and writes at no other path.
C11_PutFrameRoundTrip ==
    \A g \in RoundTripTargets : \A value \in RoundTripValues : \A time \in 1..MaxTime :
        LET r == RoundTrip(g.s, g.id, value, time)
            target == FullPath(g.s.vtx, g.id)
        IN  /\ ~r.panic
            /\ ValueAt(r.vtx, target) = <<value, time>>
            /\ \A i \in 1..Len(r.writes) : FullPath(r.vtx, r.writes[i].id) = target

\* The positions of the callback invocations of subscription sub in a log
CallsOf(log, sub) == { j \in 1..Len(log) : log[j].sub = sub }

\* C12: map fan-out: for every vertex P, the root included, and every
\* callback registered with map on P and not cancelled, an operation that
\* applies one write of a value v to a child of P under key k invokes the
\* callback exactly once, with (v, k).
C12_MapFanOut ==
    [][Len(writes') = 1 =>
          \A P \in DOMAIN vtx' : \A k \in DOMAIN vtx'[P].children :
              vtx'[P].children[k] = writes'[1].id =>
                  \A sub \in Ids(vtx'[P].map_subscriptions) :
                      /\ Cardinality(CallsOf(calls', sub)) = 1
                      /\ \A j \in CallsOf(calls', sub) :
                            calls'[j] = Call(sub, writes'[1].value, k)]_vars

\* The vertex a traversal from vertex id reaches along a path of keys through
\* the children maps, -1 when a key is missing on the way
RECURSIVE Walk(_, _, _)
Walk(v, id, path) ==
    IF path = <<>> THEN id
    ELSE IF path[1] \in DOMAIN v[id].children
         THEN Walk(v, v[id].children[path[1]], Tail(path))
         ELSE -1

\* root.get(k1). ... .get(kn).put(value) at wall-clock time
TraversePut(s, path, value, time) ==
    LET g == get_each(Begin(s), RootId, path)
    IN  IF g.panic THEN g ELSE put(g, g.ret, value, time)

\* C13: an on-subscription stays live until off: a callback registered with
\* on on the vertex a key path from the root addresses, and not cancelled,
\* is invoked with the written value by a later write to the vertex the same
\* path addresses (root.get(...).get(...).put(v)), whatever put happened in
\* between.
C13_OnStaysLive ==
    \A u \in store :
        Walk(vtx, RootId, FullPath(vtx, u)) = u =>
            \A sub \in Ids(vtx[u].on_subscriptions) :
                \A h \in handles : \A between \in Values : \A value \in Values :
                    LET mid == put(Cur, h, between, 1)
                        r   == TraversePut(mid, FullPath(vtx, u), value, MaxTime)
                    IN  \E j \in CallsOf(r.calls, sub) : r.calls[j].value = value

\* The get frames the reply property tries: a vertex addressed by "#" alone
\* or by "#" and ".", at depths 1 to 3
GetProbes ==
    { << KV(Str("#"), JStr(soul)) >> : soul \in {Str("a"), <<"a", "x">>} } \cup
    { << KV(Str("#"), JStr(soul)), KV(Str("."), JStr(Str("x"))) >> :
          soul \in {Str("a"), <<"a", "x">>} }

\* Whether a frame is a put frame with the single entry key: value whose
\* state for key is state
IsReplyWith(frame, key, value, state) ==
    /\ JGet(frame, Str("put")) # <<>>
    /\ JIndex(frame, Str("put")).j = "object"
    /\ Len(JIndex(frame, Str("put")).o) = 1
    /\ LET e == JIndex(frame, Str("put")).o[1].v
       IN  /\ JIndex(e, key) = ToJson(value)
           /\ JIndex(JIndex(JIndex(e, Str("_")), Str(">")), key) = JFloat(state)

\* C14: incoming get reply: handling a get frame that addresses a vertex by
\* "#" alone or by "#" and ".", at any depth, sends one put frame to each
\* adapter when the vertex has a scalar or a child, carrying the vertex's key
\* with its aggregate value and its updated_at as the state of that key, and
\* sends nothing when the vertex has neither.  The vertex a get object
\* addresses is the one the keys of its "#" path lead to, one key per
\* "/"-separated segment, followed by the key of "." when there is one.
C14_GetReply ==
    \A fields \in GetProbes :
        LET r  == Handle(Cur, GetFrame(fields))
            soul == fields[1].v.s
            address == [i \in 1..Len(soul) |-> Str(soul[i])] \o
                       (IF Len(fields) = 2 THEN << fields[2].v.s >> ELSE <<>>)
            id == Walk(vtx, RootId, address)
        IN  /\ ~r.panic
            /\ IF id # -1 /\ IsSome(get_gun_value(Cur, id))
               THEN /\ Len(r.sent) = AdapterCount
                    /\ \A i \in 1..Len(r.sent) :
                          IsReplyWith(r.sent[i], vtx[id].key, get_gun_value(Cur, id),
                                      vtx[id].updated_at)
               ELSE r.sent = <<>>

\* A well-formed put entry: the field "x" of the node "a" at the highest time
ValidEntry ==
    KV(Str("a"), PutEntry(Str("a"), Str("x"), JNum(MaxTime), ToJson(Text(Str("old")))))

\* Malformed put entries: a timestamp that is no number, a value that decodes
\* to no GunValue, an empty path string, an empty key string, an entry that
\* is no object
MalformedEntries ==
    { KV(Str("b"), PutEntry(Str("b"), Str("x"), JStr(Str("x")), ToJson(Text(Str("old"))))),
      KV(Str("b"), PutEntry(Str("b"), Str("x"), JNum(MaxTime),
                            JObj(<< KV(Str("#"), JStr(<<"b", "x">>)) >>))),
      KV(EmptyStr, PutEntry(EmptyStr, Str("x"), JNum(MaxTime), ToJson(Text(Str("old"))))),
      KV(Str("b"), PutEntry(Str("b"), EmptyStr, JNum(MaxTime), ToJson(Text(Str("old"))))),
      KV(Str("b"), JStr(Str("x"))) }

\* Two put entries in the key order of the put object
InKeyOrder(e1, e2) == IF StrLess(e1.k, e2.k) THEN << e1, e2 >> ELSE << e2, e1 >>

\* Malformed frames, each with whether it also carries the valid entry
MalformedFrames ==
    { [frame |-> JObj(<< KV(Str("#"), MsgId) >>), valid |-> FALSE],
      [frame |-> JStr(Str("x")), valid |-> FALSE],
      [frame |-> JObj(<< KV(Str("#"), MsgId), KV(Str("put"), JStr(Str("x"))) >>),
       valid |-> FALSE],
      [frame |-> JArr(<< JArr(<< PutFrame(<< ValidEntry >>) >>) >>), valid |-> FALSE],
      [frame |-> JArr(<< JArr(<< >>), PutFrame(<< ValidEntry >>) >>), valid |-> TRUE] } \cup
    { [frame |-> PutFrame(<< m >>), valid |-> FALSE] : m \in MalformedEntries } \cup
    { [frame |-> PutFrame(InKeyOrder(ValidEntry, m)), valid |-> TRUE] : m \in MalformedEntries }

\* C15: handling never aborts: for a frame with a missing discriminator, a
\* payload that is no object, a nested array, a timestamp that is no number,
\* an undecodable value or an empty path or key string, the handling
\* completes, the malformed part writes nothing, and the valid entry of the
\* same frame is applied.
C15_HandlingNeverAborts ==
    \A f \in MalformedFrames :
        LET r == Handle(Cur, f.frame)
            field == << Str("a"), Str("x") >>
        IN  /\ ~r.panic
            /\ \A i \in 1..Len(r.writes) :
                  f.valid /\ FullPath(r.vtx, r.writes[i].id) = field
            /\ (f.valid /\ ValueAt(vtx, field)[2] < MaxTime) =>
                   ValueAt(r.vtx, field) = << Text(Str("old")), MaxTime >>

\* C16: after off(id) returns on a vertex, the callback registered under id
\* on that vertex, by on or by map, is invoked by no later operation; a write
\* still invokes every callback left in the on table of the written vertex
\* and in the map table of its stored parent; and off with an id that is in
\* neither table of the vertex changes nothing.
C16_OffCancels ==
    [][/\ \A j \in 1..Len(calls') : \A c \in cancelled' : calls'[j].sub # c.id
       /\ \A i \in 1..Len(writes') :
             LET w == writes'[i]
             IN  /\ \A sub \in Ids(vtx'[w.id].on_subscriptions) : CallsOf(calls', sub) # {}
                 /\ \A p \in vtx'[w.id].parents :
                       p[1] \in store' =>
                           \A sub \in Ids(vtx'[p[1]].map_subscriptions) :
                               CallsOf(calls', sub) # {}
       /\ \A h \in handles : \A id \in CounterStart..counter :
             (/\ id \notin Ids(vtx[h].on_subscriptions) \cup Ids(vtx[h].map_subscriptions)
              /\ OffOff(h, id)) =>
                 /\ UNCHANGED <<vtx, store, counter, cancelled>>
                 /\ calls' = <<>>]_vars

\* C16's case: a write has just invoked a callback that is still registered
\* on a vertex where another callback was cancelled, and the cancelled one
\* was not invoked
C16_Witness ==
    /\ writes # <<>>
    /\ \E c \in cancelled :
          /\ CallsOf(calls, c.id) = {}
          /\ \E sub \in Ids(vtx[c.vertex].on_subscriptions) \cup
                        Ids(vtx[c.vertex].map_subscriptions) :
                CallsOf(calls, sub) # {}

\* C17: when a write to the child of P under key k fires the on-subscribers
\* of P, each is passed the Children aggregate of P's current children, with
\* the written value under k, never a scalar P held before the write.
C17_ParentSeesFreshAggregate ==
    [][\A i \in 1..Len(writes') :
          LET w == writes'[i]
          IN  \A p \in vtx'[w.id].parents :
                  (/\ p[1] \in store'
                   /\ p[2] \in DOMAIN vtx'[p[1]].children
                   /\ vtx'[p[1]].children[p[2]] = w.id) =>
                      \A sub \in Ids(vtx'[p[1]].on_subscriptions) :
                          \A j \in CallsOf(calls', sub) :
                              /\ calls'[j].value =
                                     children_to_gun_value([vtx |-> vtx', store |-> store'],
                                                           vtx'[p[1]].children)
                              /\ calls'[j].value.map[p[2]] = w.value]_vars

\* The operations that invoke callbacks, tried from the current state: a put,
\* an on and a map on every handle, and every delivered put frame
CallbackOperations ==
    { put(Cur, h, value, 1) : h \in handles, value \in Values } \cup
    UNION { { on(Cur, h, order) : order \in Orders(vtx[h].on_subscriptions, counter) } : h \in handles } \cup
    UNION { { map(Cur, h, order) : order \in Orders(vtx[h].map_subscriptions, counter) } : h \in handles } \cup
    { Handle(Cur, msg) : msg \in PutFrames }

\* C18: whenever a callback runs (from put_local's own or parent fan-out,
\* from on or from map), the invoking thread holds no lock other than the
\* read lock on the subscription table being iterated: none on the node
\* store, none on any vertex's value, children or parents.
C18_NoLockAcrossCallback ==
    \A r \in CallbackOperations :
        \A i \in 1..Len(r.held) : \A guard \in r.held[i] :
            guard.lock \in {"on_subscriptions", "map_subscriptions"}

\* Whether vertex P has vertex id as a child, under some key
ListsChild(v, P, id) == \E k \in DOMAIN v[P].children : v[P].children[k] = id

\* C19: frame of a write: an accepted write to vertex V leaves the value and
\* updated_at of every other vertex unchanged, except that it clears the
\* value of the vertices that list V in their children map; a vertex that
\* does not have V as a child, V being a child it dropped or that get
\* replaced, keeps its value.
C19_WriteFrame ==
    [][\A i \in 1..Len(writes') :
          \A P \in DOMAIN vtx \ {writes'[i].id} :
              /\ vtx'[P].updated_at = vtx[P].updated_at
              /\ IF ListsChild(vtx', P, writes'[i].id)
                 THEN vtx'[P].value \in {vtx[P].value, None}
                 ELSE vtx'[P].value = vtx[P].value]_vars

\* C20: handling an incoming put frame sends no frame to any adapter, whether
\* its write is accepted or rejected; of the local operations, get, map and
\* off send nothing either, so that frames leave only with a local put, an
\* on, or the reply to an incoming get.
C20_IncomingPutSendsNothing ==
    /\ \A msg \in ProbeFrames : Handle(Cur, msg).sent = <<>>
    /\ (writes # <<>> /\ lastPut = NoPut) => sent = <<>>
    /\ \A h \in handles :
          /\ \A key \in LocalKeys(h) : get(Cur, h, key).sent = <<>>
          /\ \A order \in Orders(vtx[h].map_subscriptions, counter) : map(Cur, h, order).sent = <<>>
          /\ \A id \in CounterStart..counter : off(Cur, h, id).sent = <<>>

\* C20's case: a delivered put frame has just been merged, its write was
\* applied and a subscriber was called, and nothing was sent
C20_Witness ==
    /\ writes # <<>>
    /\ calls # <<>>
    /\ lastPut = NoPut
    /\ sent = <<>>

====
